---------------------------- MODULE Spec2Model ----------------------------
(***************************************************************************)
(* The e-mail OTP lifecycle of live-pce2.                                   *)
(*                                                                         *)
(* Issuance is POST /api/auth/send-otp (src/VERCEL_COMMANDS.md, lines      *)
(* 170-363): validate, findFirst, cooldown check, generate, hash, expiry,  *)
(* update-or-create, send, rollback on a failed send.  Every await of the  *)
(* handler is a point where another request (another serverless instance   *)
(* or another pending request of the same one) may run, and every          *)
(* Date.now() / new Date() is a separate read of the wall clock.           *)
(*                                                                         *)
(* The table is email_otps of src/app/api/admin/setup-database/route.ts    *)
(* (lines 127-138, index at line 237): the primary key is "id" and the     *)
(* index on "email" is not unique.                                         *)
(*                                                                         *)
(* @/lib/otpUtils, @/lib/otpEmail and the verification route are imported  *)
(* by the handler but are not part of the sources; they are modelled from  *)
(* sections 4.1-4.5 and 4.7 of the specification.                          *)
(***************************************************************************)
EXTENDS Integers, Sequences, FiniteSets, TLC

VARIABLES
    clock,      \* the wall clock, in milliseconds
    ticks,      \* how many times the clock has advanced
    store,      \* the rows of email_otps
    pc,         \* per request slot: the handler's position
    loc,        \* per request slot: the handler's local constants
    resp,       \* per request slot: the response the call has just returned
                \* (a slot that has returned is idle again at the next step)
    writes,     \* per request slot: store mutations made by the call
    sends,      \* per request slot: sendOTPEmail invocations of the call
    vres,       \* the response of the verifyCode that has just returned, if any
    databaseUrl,        \* process.env.DATABASE_URL of the process
    globalForPrisma,    \* globalForPrisma.prisma: 0 is undefined, else a client
    clients,            \* the PrismaClient instances constructed in the process
    pools,              \* how many pg Pools have been constructed in the process
    prismaOf,           \* per module instance: its export `prisma`, 0 before evaluation
    handle,             \* per request slot: the client the request is using, 0 if none
    schema,             \* the tables, indexes and constraints the database holds
    run                 \* the POST /api/admin/setup-database in progress, if any

\* No setup request has been received yet.
NoRun ==
    [pc |-> "idle", successCount |-> 0, results |-> <<>>, before |-> {},
     response |-> [status |-> 0, success |-> "none", tablesCreated |-> 0,
                   totalStatements |-> 0, exists |-> FALSE]]

\* The OTP lifecycle: clock, store and requests.
OtpState == <<clock, ticks, store, pc, loc, resp, writes, sends, vres>>

\* The persistence client of the process.
ProcessState == <<databaseUrl, globalForPrisma, clients, pools, prismaOf, handle>>

\* The schema of the database and the request that sets it up.
SetupState == <<schema, run>>

vars == <<clock, ticks, store, pc, loc, resp, writes, sends, vres,
          databaseUrl, globalForPrisma, clients, pools, prismaOf, handle,
          schema, run>>

----------------------------------------------------------------------------
(* Bounds of the model *)

MaxTicks == 2

Procs == {1, 2}

\* How many instances of the module lib/prisma.ts one process evaluates (one
\* per bundle that imports it).
MaxModules == 3

Modules == 1..MaxModules

\* The amounts by which the clock advances between two steps.
Steps == {59999, 60000, 300000}

----------------------------------------------------------------------------
(* Program constants *)

CooldownMs == 60000
MsPerSecond == 1000
ExpiryMs == 300000
MaxAttempts == 5

\* The codes the generator draws from (two of the 10^6 six-digit strings).
Codes == {"123456", "654321"}

----------------------------------------------------------------------------
(* Request bodies: { email } as parsed by request.json() *)

Str(chars) == [kind |-> "string", chars |-> chars]
Missing == [kind |-> "undefined", chars |-> <<>>]
NonString == [kind |-> "number", chars |-> <<>>]

Inputs ==
    { Str(<<"a", "@", "b", ".", "c">>),
      Str(<<" ", "A", "@", "b", ".", "c">>),
      Str(<<"a", "@", "b">>),
      Str(<<>>),
      Missing,
      NonString }

IsSpace(ch) == ch \in {" ", "\t", "\n"}

LowerChar(ch) ==
    CASE ch = "A" -> "a"
      [] ch = "B" -> "b"
      [] ch = "C" -> "c"
      [] OTHER -> ch

RECURSIVE TrimStart(_)
TrimStart(s) ==
    IF s # <<>> /\ IsSpace(Head(s)) THEN TrimStart(Tail(s)) ELSE s

RECURSIVE TrimEnd(_)
TrimEnd(s) ==
    IF s # <<>> /\ IsSpace(s[Len(s)]) THEN TrimEnd(SubSeq(s, 1, Len(s) - 1)) ELSE s

Trim(s) == TrimEnd(TrimStart(s))

ToLowerCase(s) == [i \in 1..Len(s) |-> LowerChar(s[i])]

\* Normalize that trims but keeps the letter case.
NormalizeKeepsCase(s) == Trim(s)

\* email.trim().toLowerCase()
Normalize(s) == ToLowerCase(Trim(s))

\* [^\s@]+
Plain(s, from, to) ==
    /\ from <= to
    /\ \A i \in from..to : ~IsSpace(s[i]) /\ s[i] # "@"

\* EmailRegexTest without the dot and what follows it: /^[^\s@]+@[^\s@]+$/
EmailRegexTestNoDot(s) ==
    \E i \in 1..Len(s) :
        /\ s[i] = "@"
        /\ Plain(s, 1, i - 1)
        /\ Plain(s, i + 1, Len(s))

\* /^[^\s@]+@[^\s@]+\.[^\s@]+$/.test(s)
EmailRegexTest(s) ==
    \E i \in 1..Len(s) : \E j \in 1..Len(s) :
        /\ s[i] = "@"
        /\ s[j] = "."
        /\ i < j
        /\ Plain(s, 1, i - 1)
        /\ Plain(s, i + 1, j - 1)
        /\ Plain(s, j + 1, Len(s))

\* !email || typeof email !== 'string'
EmailMissing(raw) == raw.kind # "string" \/ raw.chars = <<>>

EmailValid(raw) == ~EmailMissing(raw) /\ EmailRegexTest(Normalize(raw.chars))

Emails == { Normalize(i.chars) : i \in { r \in Inputs : EmailValid(r) } }

----------------------------------------------------------------------------
(* otpUtils *)

hashOTP(otp) == <<"bcrypt", otp>>

compareOTP(otp, otpHash) == otpHash = hashOTP(otp)

canResendOTP(lastSentAt, t) == t - lastSentAt >= CooldownMs

getOTPExpirationTime(t) == t + ExpiryMs

isExpired(expiresAt, t) == t >= expiresAt

\* Math.ceil(n / d) for d > 0
Ceil(n, d) == -((-n) \div d)

----------------------------------------------------------------------------
(* email_otps *)

NullRow ==
    [id |-> 0, email |-> <<>>, otpHash |-> <<>>, expiresAt |-> 0, attempts |-> 0,
     verified |-> FALSE, lastSentAt |-> 0, createdAt |-> 0]

\* A row as opposed to null.
Exists(row) == row.id # 0

RowsOf(rows, email) == { r \in rows : r.email = email }

\* findFirst({ where: { email }, orderBy: { createdAt: 'desc' } }): the rows it
\* may return; rows with the same createdAt come back in any order.
FindFirst(rows, email) ==
    IF RowsOf(rows, email) = {}
    THEN {NullRow}
    ELSE { r \in RowsOf(rows, email) :
             \A q \in RowsOf(rows, email) : q.createdAt <= r.createdAt }

\* What the handler reads of the row findFirst returned: id and lastSentAt.
Read(row) == [id |-> row.id, lastSentAt |-> row.lastSentAt]

\* UpdateRow that does not write `verified`.
UpdateRowKeepsVerified(rows, id, data) ==
    { IF r.id = id
      THEN [r EXCEPT !.otpHash = data.otpHash, !.expiresAt = data.expiresAt,
                     !.attempts = data.attempts, !.lastSentAt = data.lastSentAt]
      ELSE r : r \in rows }

\* update({ where: { id }, data })
UpdateRow(rows, id, data) ==
    { IF r.id = id
      THEN [r EXCEPT !.otpHash = data.otpHash, !.expiresAt = data.expiresAt,
                     !.attempts = data.attempts, !.verified = data.verified,
                     !.lastSentAt = data.lastSentAt]
      ELSE r : r \in rows }

\* create({ data })
CreateRow(rows, id, email, data, t) ==
    rows \cup { [id |-> id, email |-> email, otpHash |-> data.otpHash,
                 expiresAt |-> data.expiresAt, attempts |-> data.attempts,
                 verified |-> data.verified, lastSentAt |-> data.lastSentAt,
                 createdAt |-> t] }

\* deleteMany({ where: { email } })
DeleteMany(rows, email) == { r \in rows : r.email # email }

----------------------------------------------------------------------------
(* Responses *)

NoResp == [status |-> 0, kind |-> "none", n |-> 0]

Response(status, kind, n) == [status |-> status, kind |-> kind, n |-> n]

\* The outer catch of the handler: what it answers for each thrown error.
OuterCatch(err) ==
    CASE err = "P1001" -> Response(503, "PersistenceError", 0)
      [] err = "P2002" -> Response(400, "PersistenceError", 0)
      [] err = "P2025" -> Response(500, "PersistenceError", 0)
      [] OTHER -> Response(500, "InternalError", 0)

\* The handler's local constants before they are assigned.
NoLocals ==
    [normalizedEmail |-> <<>>, existingOTP |-> Read(NullRow), otp |-> "",
     otpHash |-> <<>>, expiresAt |-> -1, now |-> -1]

NoVerify == [kind |-> "none", n |-> 0]

----------------------------------------------------------------------------
Init ==
    /\ clock = 0
    /\ ticks = 0
    /\ store = {}
    /\ pc = [p \in Procs |-> "idle"]
    /\ loc = [p \in Procs |-> NoLocals]
    /\ resp = [p \in Procs |-> NoResp]
    /\ writes = [p \in Procs |-> 0]
    /\ sends = [p \in Procs |-> 0]
    /\ vres = NoVerify
    /\ databaseUrl = "valid"
    /\ globalForPrisma = 0
    /\ clients = {}
    /\ pools = 0
    /\ prismaOf = [m \in Modules |-> 0]
    /\ handle = [p \in Procs |-> 0]
    /\ schema = {}
    /\ run = NoRun

\* A slot that has returned is idle again at the next step of the system: `f`
\* with the slots that have returned set back to `d`.
Idle(f, d) == [q \in Procs |-> IF pc[q] = "done" THEN d ELSE f[q]]

\* What a step that is no step of a handler leaves of the request slots.
Others ==
    /\ pc' = Idle(pc, "idle")
    /\ resp' = Idle(resp, NoResp)
    /\ writes' = Idle(writes, 0)
    /\ sends' = Idle(sends, 0)
    /\ loc' = Idle(loc, NoLocals)
    /\ UNCHANGED ProcessState
    /\ UNCHANGED SetupState

\* The handler in slot p returns `r` after `w` more store mutations and `m`
\* more mails.
Return(p, r, w, m) ==
    /\ pc' = [Idle(pc, "idle") EXCEPT ![p] = "done"]
    /\ resp' = [Idle(resp, NoResp) EXCEPT ![p] = r]
    /\ loc' = Idle(loc, NoLocals)
    /\ writes' = [Idle(writes, 0) EXCEPT ![p] = @ + w]
    /\ sends' = [Idle(sends, 0) EXCEPT ![p] = @ + m]
    /\ vres' = NoVerify
    /\ UNCHANGED ProcessState
    /\ UNCHANGED SetupState

\* The handler in slot p goes on to `label` with its locals now `l`, after `w`
\* more store mutations and `m` more mails.
Goto(p, label, l, w, m) ==
    /\ pc' = [Idle(pc, "idle") EXCEPT ![p] = label]
    /\ resp' = Idle(resp, NoResp)
    /\ loc' = [Idle(loc, NoLocals) EXCEPT ![p] = l]
    /\ writes' = [Idle(writes, 0) EXCEPT ![p] = @ + w]
    /\ sends' = [Idle(sends, 0) EXCEPT ![p] = @ + m]
    /\ vres' = NoVerify
    /\ UNCHANGED ProcessState
    /\ UNCHANGED SetupState

\* Time passes.
Tick(d) ==
    /\ ticks < MaxTicks
    /\ clock' = clock + d
    /\ ticks' = ticks + 1
    /\ Others
    /\ vres' = NoVerify
    /\ UNCHANGED store

\* A request slot is free, and so is every slot before it.
Free(p) ==
    /\ pc[p] \in {"idle", "done"}
    /\ \A q \in Procs : q < p => pc[q] \notin {"idle", "done"}

\* A request arrives; 1. Validate email format.
ValidateEmail(p, raw) ==
    /\ Free(p)
    /\ IF EmailMissing(raw)
       THEN Return(p, Response(400, "ValidationError", 0), 0, 0)
       ELSE IF ~EmailRegexTest(Normalize(raw.chars))
            THEN Return(p, Response(400, "ValidationError", 0), 0, 0)
            ELSE Goto(p, "find", [NoLocals EXCEPT !.normalizedEmail = Normalize(raw.chars)],
                      0, 0)
    /\ UNCHANGED <<clock, ticks, store>>

\* 2. Check for existing OTP record.
FindExisting(p) ==
    /\ pc[p] = "find"
    /\ \/ \E r \in FindFirst(store, loc[p].normalizedEmail) :
            Goto(p, "cooldown", [loc[p] EXCEPT !.existingOTP = Read(r)], 0, 0)
       \/ Return(p, OuterCatch("P1001"), 0, 0)
    /\ UNCHANGED <<clock, ticks, store>>

\* CheckCooldown without the early return: the cooldown is never applied.
CheckCooldownNoReturn(p) ==
    /\ pc[p] = "cooldown"
    /\ Goto(p, "generate", loc[p], 0, 0)
    /\ UNCHANGED <<clock, ticks, store>>

\* 3. Check resend cooldown: the decision.
CheckCooldown(p) ==
    /\ pc[p] = "cooldown"
    /\ IF Exists(loc[p].existingOTP)
       THEN IF ~canResendOTP(loc[p].existingOTP.lastSentAt, clock)
            THEN Goto(p, "remaining", loc[p], 0, 0)
            ELSE Goto(p, "generate", loc[p], 0, 0)
       ELSE Goto(p, "generate", loc[p], 0, 0)
    /\ UNCHANGED <<clock, ticks, store>>

\* ReportCooldown that also restarts the cooldown of the record it rejects on.
ReportCooldownTouch(p) ==
    /\ pc[p] = "remaining"
    /\ store' = { IF r.id = loc[p].existingOTP.id THEN [r EXCEPT !.lastSentAt = clock] ELSE r
                  : r \in store }
    /\ Return(p, Response(429, "RateLimited",
                          Ceil(CooldownMs - (clock - loc[p].existingOTP.lastSentAt), MsPerSecond)),
              1, 0)
    /\ UNCHANGED <<clock, ticks>>

\* 3. Check resend cooldown: remainingSeconds and the 429.
ReportCooldown(p) ==
    /\ pc[p] = "remaining"
    /\ LET remainingSeconds ==
               Ceil(CooldownMs - (clock - loc[p].existingOTP.lastSentAt), MsPerSecond)
       IN  Return(p, Response(429, "RateLimited", remainingSeconds), 0, 0)
    /\ UNCHANGED <<clock, ticks, store>>

\* GenerateAndHash that goes on without a digest when hashing fails.
GenerateAndHashSkipsFailure(p) ==
    /\ pc[p] = "generate"
    /\ \/ \E otp \in Codes :
            Goto(p, "expiry", [loc[p] EXCEPT !.otp = otp, !.otpHash = hashOTP(otp)], 0, 0)
       \/ \E otp \in Codes :
            Goto(p, "expiry", [loc[p] EXCEPT !.otp = otp], 0, 0)
    /\ UNCHANGED <<clock, ticks, store>>

\* 4. Generate the OTP; 5. hash it.
GenerateAndHash(p) ==
    /\ pc[p] = "generate"
    /\ \/ \E otp \in Codes :
            Goto(p, "expiry", [loc[p] EXCEPT !.otp = otp, !.otpHash = hashOTP(otp)], 0, 0)
       \/ Return(p, OuterCatch("hash"), 0, 0)
    /\ UNCHANGED <<clock, ticks, store>>

\* 6. Calculate expiration time.
ComputeExpiry(p) ==
    /\ pc[p] = "expiry"
    /\ Goto(p, "stamp", [loc[p] EXCEPT !.expiresAt = getOTPExpirationTime(clock)], 0, 0)
    /\ UNCHANGED <<clock, ticks, store>>

\* 7. const now = new Date();
StampNow(p) ==
    /\ pc[p] = "stamp"
    /\ Goto(p, "write", [loc[p] EXCEPT !.now = clock], 0, 0)
    /\ UNCHANGED <<clock, ticks, store>>

\* RecordData that leaves lastSentAt out of the update.
RecordDataStaleSent(p) ==
    [otpHash |-> loc[p].otpHash, expiresAt |-> loc[p].expiresAt, attempts |-> 0,
     verified |-> FALSE,
     lastSentAt |-> IF loc[p].existingOTP.id # 0 THEN loc[p].existingOTP.lastSentAt
                    ELSE loc[p].now]

\* RecordData that writes a spent attempt counter instead of resetting it.
RecordDataSpentAttempts(p) ==
    [otpHash |-> loc[p].otpHash, expiresAt |-> loc[p].expiresAt, attempts |-> MaxAttempts,
     verified |-> FALSE, lastSentAt |-> loc[p].now]

\* RecordData that stores the code itself where its digest belongs.
RecordDataStoresPlaintext(p) ==
    [otpHash |-> <<loc[p].otp>>, expiresAt |-> loc[p].expiresAt, attempts |-> 0,
     verified |-> FALSE, lastSentAt |-> loc[p].now]

\* The data of the update and of the create.
RecordData(p) ==
    [otpHash |-> loc[p].otpHash, expiresAt |-> loc[p].expiresAt, attempts |-> 0,
     verified |-> FALSE, lastSentAt |-> loc[p].now]

\* The primary key of a new row: one that no row has and no handler holds.
NewId ==
    CHOOSE id \in 1..(2 * Cardinality(Procs)) :
        /\ \A r \in store : r.id # id
        /\ \A q \in Procs : loc[q].existingOTP.id # id
        /\ \A less \in 1..(id - 1) :
             \/ \E r \in store : r.id = less
             \/ \E q \in Procs : loc[q].existingOTP.id = less

\* WriteRecord that stamps and tries again when the store cannot be reached.
WriteRecordRetries(p) ==
    /\ pc[p] = "write"
    /\ \/ /\ Exists(loc[p].existingOTP)
          /\ \E r \in store : r.id = loc[p].existingOTP.id
          /\ store' = UpdateRow(store, loc[p].existingOTP.id, RecordData(p))
          /\ Goto(p, "send", loc[p], 1, 0)
       \/ /\ Exists(loc[p].existingOTP)
          /\ ~ \E r \in store : r.id = loc[p].existingOTP.id
          /\ Return(p, OuterCatch("P2025"), 0, 0)
          /\ UNCHANGED store
       \/ /\ ~Exists(loc[p].existingOTP)
          /\ store' = CreateRow(store, NewId, loc[p].normalizedEmail, RecordData(p), clock)
          /\ Goto(p, "send", loc[p], 1, 0)
       \/ /\ Goto(p, "stamp", loc[p], 0, 0)
          /\ UNCHANGED store
    /\ UNCHANGED <<clock, ticks>>

\* WriteRecord that goes on to the send when the store cannot be reached.
WriteRecordIgnoresFailure(p) ==
    /\ pc[p] = "write"
    /\ \/ /\ Exists(loc[p].existingOTP)
          /\ \E r \in store : r.id = loc[p].existingOTP.id
          /\ store' = UpdateRow(store, loc[p].existingOTP.id, RecordData(p))
          /\ Goto(p, "send", loc[p], 1, 0)
       \/ /\ Exists(loc[p].existingOTP)
          /\ ~ \E r \in store : r.id = loc[p].existingOTP.id
          /\ Return(p, OuterCatch("P2025"), 0, 0)
          /\ UNCHANGED store
       \/ /\ ~Exists(loc[p].existingOTP)
          /\ store' = CreateRow(store, NewId, loc[p].normalizedEmail, RecordData(p), clock)
          /\ Goto(p, "send", loc[p], 1, 0)
       \/ /\ Goto(p, "send", loc[p], 0, 0)
          /\ UNCHANGED store
    /\ UNCHANGED <<clock, ticks>>

\* 7. Store or update OTP record in database.
WriteRecord(p) ==
    /\ pc[p] = "write"
    /\ \/ /\ Exists(loc[p].existingOTP)
          /\ \E r \in store : r.id = loc[p].existingOTP.id
          /\ store' = UpdateRow(store, loc[p].existingOTP.id, RecordData(p))
          /\ Goto(p, "send", loc[p], 1, 0)
       \/ /\ Exists(loc[p].existingOTP)
          /\ ~ \E r \in store : r.id = loc[p].existingOTP.id
          /\ Return(p, OuterCatch("P2025"), 0, 0)
          /\ UNCHANGED store
       \/ /\ ~Exists(loc[p].existingOTP)
          /\ store' = CreateRow(store, NewId, loc[p].normalizedEmail, RecordData(p), clock)
          /\ Goto(p, "send", loc[p], 1, 0)
       \/ /\ Return(p, OuterCatch("P1001"), 0, 0)
          /\ UNCHANGED store
    /\ UNCHANGED <<clock, ticks>>

\* SendEmail that clears the email's records once the mail is out.
SendEmailThenDelete(p) ==
    /\ pc[p] = "send"
    /\ \/ /\ Return(p, Response(200, "ok", 0), 1, 1)
          /\ store' = DeleteMany(store, loc[p].normalizedEmail)
       \/ /\ Goto(p, "rollback", loc[p], 0, 1)
          /\ UNCHANGED store
    /\ UNCHANGED <<clock, ticks>>

\* 8. Send OTP via email; 9. Return success.
SendEmail(p) ==
    /\ pc[p] = "send"
    /\ \/ Return(p, Response(200, "ok", 0), 0, 1)
       \/ Goto(p, "rollback", loc[p], 0, 1)
    /\ UNCHANGED <<clock, ticks, store>>

\* Rollback that keeps a record that was there before the call.
RollbackKeepPrior(p) ==
    /\ pc[p] = "rollback"
    /\ IF loc[p].existingOTP.id # 0
       THEN UNCHANGED store
       ELSE store' = DeleteMany(store, loc[p].normalizedEmail)
    /\ Return(p, Response(500, "DeliveryError", 0), 1, 0)
    /\ UNCHANGED <<clock, ticks>>

\* Rollback that blanks the digest of the email's records and keeps them.
RollbackBlanksDigest(p) ==
    /\ pc[p] = "rollback"
    /\ \/ /\ store' = { IF r.email = loc[p].normalizedEmail
                        THEN [r EXCEPT !.otpHash = <<>>] ELSE r : r \in store }
          /\ Return(p, Response(500, "DeliveryError", 0), 1, 0)
       \/ /\ Return(p, OuterCatch("P1001"), 0, 0)
          /\ UNCHANGED store
    /\ UNCHANGED <<clock, ticks>>

\* 8. Delete the OTP record if email sending fails.
Rollback(p) ==
    /\ pc[p] = "rollback"
    /\ \/ /\ store' = DeleteMany(store, loc[p].normalizedEmail)
          /\ Return(p, Response(500, "DeliveryError", 0), 1, 0)
       \/ /\ Return(p, OuterCatch("P1001"), 0, 0)
          /\ UNCHANGED store
    /\ UNCHANGED <<clock, ticks>>

----------------------------------------------------------------------------
(* Verification Engine (specification, section 4.7) *)

\* VerifyOutcome whose attempt limit is one too late.
VerifyOutcomeLateCap(row, code, t) ==
    IF row.id = 0 THEN [kind |-> "NotFound", n |-> 0]
    ELSE IF row.verified THEN [kind |-> "AlreadyVerified", n |-> 0]
    ELSE IF isExpired(row.expiresAt, t) THEN [kind |-> "Expired", n |-> 0]
    ELSE IF row.attempts > MaxAttempts THEN [kind |-> "AttemptsExhausted", n |-> 0]
    ELSE IF ~compareOTP(code, row.otpHash)
         THEN [kind |-> "Mismatch", n |-> MaxAttempts - (row.attempts + 1)]
    ELSE [kind |-> "ok", n |-> 0]

\* VerifyOutcome that checks the expiry before the verified flag.
VerifyOutcomeExpiryFirst(row, code, t) ==
    IF ~Exists(row) THEN [kind |-> "NotFound", n |-> 0]
    ELSE IF isExpired(row.expiresAt, t) THEN [kind |-> "Expired", n |-> 0]
    ELSE IF row.verified THEN [kind |-> "AlreadyVerified", n |-> 0]
    ELSE IF row.attempts >= MaxAttempts THEN [kind |-> "AttemptsExhausted", n |-> 0]
    ELSE IF ~compareOTP(code, row.otpHash)
         THEN [kind |-> "Mismatch", n |-> MaxAttempts - (row.attempts + 1)]
    ELSE [kind |-> "ok", n |-> 0]

\* The outcome of verifyCode against the fetched row.
VerifyOutcome(row, code, t) ==
    IF ~Exists(row) THEN [kind |-> "NotFound", n |-> 0]
    ELSE IF row.verified THEN [kind |-> "AlreadyVerified", n |-> 0]
    ELSE IF isExpired(row.expiresAt, t) THEN [kind |-> "Expired", n |-> 0]
    ELSE IF row.attempts >= MaxAttempts THEN [kind |-> "AttemptsExhausted", n |-> 0]
    ELSE IF ~compareOTP(code, row.otpHash)
         THEN [kind |-> "Mismatch", n |-> MaxAttempts - (row.attempts + 1)]
    ELSE [kind |-> "ok", n |-> 0]

\* VerifyStore that counts the refused attempts as well.
VerifyStoreCountsAll(rows, row, code, t) ==
    LET out == VerifyOutcome(row, code, t)
    IN  IF out.kind \in {"Mismatch", "AttemptsExhausted"}
        THEN { IF r.id = row.id THEN [r EXCEPT !.attempts = @ + 1] ELSE r : r \in rows }
        ELSE IF out.kind = "ok"
        THEN { IF r.id = row.id THEN [r EXCEPT !.verified = TRUE] ELSE r : r \in rows }
        ELSE rows

\* VerifyStore that counts a matching code as an attempt as well.
VerifyStoreCountsMatch(rows, row, code, t) ==
    LET out == VerifyOutcome(row, code, t)
    IN  IF out.kind = "Mismatch"
        THEN { IF r.id = row.id THEN [r EXCEPT !.attempts = @ + 1] ELSE r : r \in rows }
        ELSE IF out.kind = "ok"
        THEN { IF r.id = row.id THEN [r EXCEPT !.verified = TRUE, !.attempts = @ + 1] ELSE r
               : r \in rows }
        ELSE rows

\* VerifyStore that counts an attempt against an expired code.
VerifyStoreCountsExpired(rows, row, code, t) ==
    LET out == VerifyOutcome(row, code, t)
    IN  IF out.kind \in {"Mismatch", "Expired"}
        THEN { IF r.id = row.id THEN [r EXCEPT !.attempts = @ + 1] ELSE r : r \in rows }
        ELSE IF out.kind = "ok"
        THEN { IF r.id = row.id THEN [r EXCEPT !.verified = TRUE] ELSE r : r \in rows }
        ELSE rows

\* The store after verifyCode against the fetched row.
VerifyStore(rows, row, code, t) ==
    LET out == VerifyOutcome(row, code, t)
    IN  IF out.kind = "Mismatch"
        THEN { IF r.id = row.id THEN [r EXCEPT !.attempts = @ + 1] ELSE r : r \in rows }
        ELSE IF out.kind = "ok"
        THEN { IF r.id = row.id THEN [r EXCEPT !.verified = TRUE] ELSE r : r \in rows }
        ELSE rows

\* verifyCode(email, code) against `row`: check, compare and write.
VerifyRow(row, code) ==
    /\ store' = VerifyStore(store, row, code, clock)
    /\ vres' = VerifyOutcome(row, code, clock)
    /\ Others
    /\ UNCHANGED <<clock, ticks>>

\* verifyCode(email, code): the fetch and the rest are one step per email.
VerifyCode(email, code) ==
    \E row \in FindFirst(store, email) : VerifyRow(row, code)

----------------------------------------------------------------------------
\* The steps of the handler in slot p.
Handler(p) ==
    \/ \E raw \in Inputs : ValidateEmail(p, raw)
    \/ FindExisting(p)
    \/ CheckCooldown(p)
    \/ ReportCooldown(p)
    \/ GenerateAndHash(p)
    \/ ComputeExpiry(p)
    \/ StampNow(p)
    \/ WriteRecord(p)
    \/ SendEmail(p)
    \/ Rollback(p)

\* verifyCode with any well-formed email, normalized as issuance normalizes it
\* (Emails), and any code.
Verify == \E email \in Emails : \E code \in Codes : VerifyCode(email, code)

Advance == \E d \in Steps : Tick(d)

\* One request at a time, verification and time.
Next == Advance \/ Handler(1) \/ Verify

Spec == Init /\ [][Next]_vars

\* Concurrent requests and verification within one instant.
NextRace == Verify \/ \E p \in Procs : Handler(p)

SpecRace == Init /\ [][NextRace]_vars

----------------------------------------------------------------------------
(* The persistence client: lib/prisma.ts *)

\* The values of process.env.DATABASE_URL the module tells apart: not set, the
\* placeholder of a build ("dummy:dummy"), a connection string.
DatabaseUrls == {"unset", "dummy", "valid"}

\* processDatabaseUrl(): undefined when DATABASE_URL is not set, else the
\* cleaned connection string, which stays a placeholder or a connection string.
processDatabaseUrl(url) == IF url = "unset" THEN "undefined" ELSE url

\* createPrismaClient(): what one call constructs. Without a connection string
\* it returns a client with no adapter and builds no pool. With one it builds
\* one Pool, then the adapter and the client on it; when that throws, the catch
\* returns a client with no adapter, the pool having been built. Every path
\* returns exactly one new PrismaClient.
createPrismaClient(url) ==
    IF processDatabaseUrl(url) \in {"undefined", "dummy"}
    THEN {[adapter |-> FALSE, pool |-> 0]}
    ELSE {[adapter |-> TRUE, pool |-> 1], [adapter |-> FALSE, pool |-> 1]}

\* The identity of the next PrismaClient constructed.
NewClient == Cardinality(clients) + 1

\* The module body, always calling createPrismaClient().
EvaluateModuleAlwaysCreates(m) ==
    /\ prismaOf[m] = 0
    /\ \E made \in createPrismaClient(databaseUrl) :
        /\ clients' = clients \cup {[id |-> NewClient, adapter |-> made.adapter]}
        /\ pools' = pools + made.pool
        /\ prismaOf' = [prismaOf EXCEPT ![m] = NewClient]
        /\ globalForPrisma' = IF globalForPrisma = 0 THEN NewClient
                              ELSE globalForPrisma
    /\ UNCHANGED <<databaseUrl, handle>>
    /\ UNCHANGED OtpState
    /\ UNCHANGED SetupState

\* The body of the module, run once per module instance when it is first
\* imported. It has no await, so it runs to its end before any other code of
\* the process: `prisma = globalForPrisma.prisma ?? createPrismaClient()`, then
\* the handle is stored in globalForPrisma when that is still empty.
EvaluateModule(m) ==
    /\ prismaOf[m] = 0
    /\ \/ /\ globalForPrisma # 0
          /\ prismaOf' = [prismaOf EXCEPT ![m] = globalForPrisma]
          /\ UNCHANGED <<globalForPrisma, clients, pools>>
       \/ /\ globalForPrisma = 0
          /\ \E made \in createPrismaClient(databaseUrl) :
              /\ clients' = clients \cup
                     {[id |-> NewClient, adapter |-> made.adapter]}
              /\ pools' = pools + made.pool
              /\ prismaOf' = [prismaOf EXCEPT ![m] = NewClient]
              /\ globalForPrisma' = NewClient
    /\ UNCHANGED <<databaseUrl, handle>>
    /\ UNCHANGED OtpState
    /\ UNCHANGED SetupState

\* A request in slot p starts in a route that imports module instance m, and
\* works with that module's export.
UsePrisma(p, m) ==
    /\ handle[p] = 0
    /\ prismaOf[m] # 0
    /\ handle' = [handle EXCEPT ![p] = prismaOf[m]]
    /\ UNCHANGED <<databaseUrl, globalForPrisma, clients, pools, prismaOf>>
    /\ UNCHANGED OtpState
    /\ UNCHANGED SetupState

\* The request in slot p ends. Nothing in the module disconnects the client.
EndRequest(p) ==
    /\ handle[p] # 0
    /\ handle' = [handle EXCEPT ![p] = 0]
    /\ UNCHANGED <<databaseUrl, globalForPrisma, clients, pools, prismaOf>>
    /\ UNCHANGED OtpState
    /\ UNCHANGED SetupState

\* A process starts with any DATABASE_URL and nothing imported.
InitProcess ==
    /\ clock = 0
    /\ ticks = 0
    /\ store = {}
    /\ pc = [p \in Procs |-> "idle"]
    /\ loc = [p \in Procs |-> NoLocals]
    /\ resp = [p \in Procs |-> NoResp]
    /\ writes = [p \in Procs |-> 0]
    /\ sends = [p \in Procs |-> 0]
    /\ vres = NoVerify
    /\ databaseUrl \in DatabaseUrls
    /\ globalForPrisma = 0
    /\ clients = {}
    /\ pools = 0
    /\ prismaOf = [m \in Modules |-> 0]
    /\ handle = [p \in Procs |-> 0]
    /\ schema = {}
    /\ run = NoRun

Import == \E m \in Modules : EvaluateModule(m)

Request == \E p \in Procs : \E m \in Modules : UsePrisma(p, m)

Finish == \E p \in Procs : EndRequest(p)

NextProcess == Import \/ Request \/ Finish

SpecProcess == InitProcess /\ [][NextProcess]_vars

-----------------------------------------------------------------------------

(* The schema setup: POST /api/admin/setup-database *)

\* The blocks CREATE_TABLES_SQL splits into, in the order of the text: here
\* three of its tables, two of its indexes and the DO block with the foreign
\* key of audit_logs. Each block names the object it creates and the objects
\* that must exist for it to run. Every block is written IF NOT EXISTS.
sqlBlocks ==
    << [object |-> "users", needs |-> {}],
       [object |-> "audit_logs", needs |-> {}],
       [object |-> "client_users", needs |-> {}],
       [object |-> "users_email_key", needs |-> {"users"}],
       [object |-> "client_users_email_key", needs |-> {"client_users"}],
       [object |-> "audit_logs_actor_id_fkey",
        needs |-> {"audit_logs", "users"}] >>

\* Everything the blocks create.
AllObjects == {sqlBlocks[k].object : k \in 1..Len(sqlBlocks)}

\* Error messages, as the words they are made of.
NoError == <<>>

RelationExists == <<"relation", "already", "exists">>

DuplicateKey == <<"duplicate", "key", "value", "violates", "unique", "constraint">>

ConstraintExists == <<"constraint", "for", "relation", "already", "exists">>

NoRelation == <<"relation", "does", "not", "exist">>

Unreachable == <<"Can't", "reach", "database", "server">>

\* String.prototype.includes, on words.
includes(msg, phrase) ==
    \E k \in 1..(Len(msg) - Len(phrase) + 1) :
        SubSeq(msg, k, k + Len(phrase) - 1) = phrase

\* The classification of the catch in the statement loop.
isAlreadyExists(errorMsg) ==
    \/ includes(errorMsg, <<"already", "exists">>)
    \/ includes(errorMsg, <<"duplicate">>)
    \/ (includes(errorMsg, <<"relation">>) /\ includes(errorMsg, <<"already">>))
    \/ (includes(errorMsg, <<"constraint">>) /\ includes(errorMsg, <<"already">>))

\* What another session that creates the same object at the same time makes
\* the database answer to an IF NOT EXISTS statement.
RaceErrors(block) ==
    IF block.object = "audit_logs_actor_id_fkey" THEN {ConstraintExists}
    ELSE {DuplicateKey, RelationExists}

\* prisma.$executeRawUnsafe(statement): the error it throws (NoError when it
\* resolves) and the schema it leaves. The server may be unreachable; an object
\* the block needs may be missing; the object may exist, and IF NOT EXISTS then
\* makes the statement a no-op; else the object is created, by this statement
\* or by a session racing with it.
executeRawUnsafe(block, db) ==
    {[error |-> Unreachable, schema |-> db]} \cup
    (IF ~(block.needs \subseteq db)
     THEN {[error |-> NoRelation, schema |-> db]}
     ELSE IF block.object \in db
     THEN {[error |-> NoError, schema |-> db]}
     ELSE {[error |-> NoError, schema |-> db \cup {block.object}]} \cup
          {[error |-> e, schema |-> db \cup {block.object}] :
               e \in RaceErrors(block)})

\* The entry pushed on results for block k after $executeRawUnsafe threw
\* errorMsg, or resolved.
ResultEntry(k, errorMsg) ==
    IF errorMsg = NoError
    THEN [statement |-> k, success |-> TRUE, note |-> "", error |-> NoError]
    ELSE IF isAlreadyExists(errorMsg)
    THEN [statement |-> k, success |-> TRUE, note |-> "already exists",
          error |-> NoError]
    ELSE [statement |-> k, success |-> FALSE, note |-> "", error |-> errorMsg]

\* What one pass of the loop adds to successCount.
Counted(errorMsg) ==
    IF errorMsg = NoError \/ isAlreadyExists(errorMsg) THEN 1 ELSE 0

\* POST is received: without DATABASE_URL it answers 500 at once, else it
\* starts the loop with no results.
Post ==
    /\ run.pc \in {"idle", "done"}
    /\ IF databaseUrl = "unset"
       THEN run' = [pc |-> "done", successCount |-> 0, results |-> <<>>,
                    before |-> schema,
                    response |-> [status |-> 500, success |-> "absent",
                                  tablesCreated |-> 0, totalStatements |-> 0,
                                  exists |-> FALSE]]
       ELSE run' = [NoRun EXCEPT !.pc = "loop", !.before = schema]
    /\ UNCHANGED schema
    /\ UNCHANGED OtpState
    /\ UNCHANGED ProcessState

\* The loop leaving at the first block that fails.
ExecuteBlockStopsOnFailure ==
    /\ run.pc = "loop"
    /\ Len(run.results) < Len(sqlBlocks)
    /\ LET k == Len(run.results) + 1 IN
       \E out \in executeRawUnsafe(sqlBlocks[k], schema) :
        /\ schema' = out.schema
        /\ run' = [run EXCEPT
                     !.successCount = @ + Counted(out.error),
                     !.results = Append(@, ResultEntry(k, out.error)),
                     !.pc = IF k = Len(sqlBlocks) \/ Counted(out.error) = 0
                            THEN "verify" ELSE "loop"]
    /\ UNCHANGED OtpState
    /\ UNCHANGED ProcessState

\* One pass of `for (const block of sqlBlocks)`: the statement is executed, and
\* whether it resolves or throws, one entry is pushed and the loop goes on
\* to the next block, or ends after the last one.
ExecuteBlock ==
    /\ run.pc = "loop"
    /\ Len(run.results) < Len(sqlBlocks)
    /\ LET k == Len(run.results) + 1 IN
       \E out \in executeRawUnsafe(sqlBlocks[k], schema) :
        /\ schema' = out.schema
        /\ run' = [run EXCEPT
                     !.successCount = @ + Counted(out.error),
                     !.results = Append(@, ResultEntry(k, out.error)),
                     !.pc = IF k = Len(sqlBlocks) THEN "verify" ELSE "loop"]
    /\ UNCHANGED OtpState
    /\ UNCHANGED ProcessState

\* After the loop: client_users is queried, the outcome of the query is kept
\* in verification, and the response is returned.
VerifyTables ==
    /\ run.pc = "verify"
    /\ \E exists \in {FALSE, "client_users" \in schema} :
        run' = [run EXCEPT
                  !.pc = "done",
                  !.response = [status |-> 200, success |-> "true",
                                tablesCreated |-> run.successCount,
                                totalStatements |-> Len(run.results),
                                exists |-> exists]]
    /\ UNCHANGED schema
    /\ UNCHANGED OtpState
    /\ UNCHANGED ProcessState

NextSetup == Post \/ ExecuteBlock \/ VerifyTables

SpecSetup == InitProcess /\ [][NextSetup]_vars

-----------------------------------------------------------------------------

(* Termination *)

\* The steps of a request that has been received: each await of the handler
\* eventually settles, with a value or with an error.
Continue(p) ==
    \/ FindExisting(p)
    \/ CheckCooldown(p)
    \/ ReportCooldown(p)
    \/ GenerateAndHash(p)
    \/ ComputeExpiry(p)
    \/ StampNow(p)
    \/ WriteRecord(p)
    \/ SendEmail(p)
    \/ Rollback(p)

\* One request at a time, every store call and delivery call returning.
SpecFair == Spec /\ WF_vars(Continue(1))

----------------------------------------------------------------------------

(* Properties *)

\* The handler in slot p takes a step.
Steps_(p) == pc'[p] # pc[p]

\* The slot whose call has just returned a response of kind `k`.
Returned(p, k) == pc[p] = "done" /\ resp[p].kind = k

\* C1: in a run of one request at a time, the cooldown decision of a request
\* for an email whose record was last sent less than 60 seconds ago always
\* takes the RateLimited path, that path always answers RateLimited, and a
\* request for an email with no record is never rate-limited.
C1_SecondWithinCooldownRejected ==
    [][\A p \in Procs :
         /\ (pc[p] = "cooldown" /\ Steps_(p)) =>
              LET rows == RowsOf(store, loc[p].normalizedEmail)
              IN  /\ (\E r \in rows : clock - r.lastSentAt < CooldownMs)
                        => pc'[p] = "remaining"
                  /\ rows = {} => pc'[p] = "generate"
         /\ (pc[p] = "remaining" /\ Steps_(p)) =>
              (pc'[p] = "done" /\ resp'[p].kind = "RateLimited" /\ resp'[p].status = 429)
         /\ (Steps_(p) /\ pc'[p] = "done" /\ resp'[p].kind = "RateLimited") =>
              Exists(loc[p].existingOTP)
      ]_vars

\* A second request 59.999 s after the first is answered RateLimited, 1 second left.
C1_Witness ==
    \E p \in Procs :
        /\ Returned(p, "RateLimited")
        /\ resp[p].n = 1
        /\ \E r \in store : clock - r.lastSentAt = 59999

\* C2: two requests for the same email never both get past the write with
\* issuance times less than 60 seconds apart.
C2_AtMostOneIssuesPerWindow ==
    \A p \in Procs : \A q \in Procs :
        (/\ p # q
         /\ pc[p] = "send"
         /\ pc[q] = "send"
         /\ loc[p].normalizedEmail = loc[q].normalizedEmail)
        => \/ loc[p].now - loc[q].now >= CooldownMs
           \/ loc[q].now - loc[p].now >= CooldownMs

\* C3: the store holds at most one record for each normalized email.
C3_AtMostOneRecordPerEmail ==
    \A e \in Emails : Cardinality(RowsOf(store, e)) <= 1

\* C4: when a request returns DeliveryError, the store holds no record for
\* its email, whether or not a record was there before the call.
C4_NoRecordAfterDeliveryError ==
    \A p \in Procs :
        Returned(p, "DeliveryError") => RowsOf(store, loc[p].normalizedEmail) = {}

\* A re-issuance over an existing record has failed to deliver and has returned.
C4_Witness ==
    \E p \in Procs :
        /\ Returned(p, "DeliveryError")
        /\ Exists(loc[p].existingOTP)
        /\ writes[p] = 2
        /\ store = {}

\* C5: a verifyCode at or after lastSentAt + 5 minutes of the fetched record
\* never succeeds; against an unverified record it answers Expired exactly
\* when the clock has reached expiresAt, and then leaves the store unchanged.
C5_NoSuccessAfterExpiry ==
    [][\A e \in Emails : \A c \in Codes : \A row \in FindFirst(store, e) :
         (VerifyRow(row, c) /\ Exists(row)) =>
            /\ clock >= row.lastSentAt + ExpiryMs => vres'.kind # "ok"
            /\ ~row.verified =>
                 /\ (vres'.kind = "Expired") = (clock >= row.expiresAt)
                 /\ clock >= row.lastSentAt + ExpiryMs => vres'.kind = "Expired"
                 /\ vres'.kind = "Expired" => store' = store
      ]_vars

\* The correct code has just been refused as Expired at exactly expiresAt.
C5_Witness ==
    /\ vres.kind = "Expired"
    /\ \E r \in store :
         /\ ~r.verified
         /\ clock = r.expiresAt
         /\ clock = r.lastSentAt + ExpiryMs
         /\ \E c \in Codes : compareOTP(c, r.otpHash)

\* C6 as stated: a verifyCode against a record with attempts at the maximum
\* always answers AttemptsExhausted.
C6_AlwaysAttemptsExhausted ==
    [][\A e \in Emails : \A c \in Codes : \A row \in FindFirst(store, e) :
         (VerifyRow(row, c) /\ Exists(row) /\ row.attempts >= MaxAttempts) =>
            vres'.kind = "AttemptsExhausted"
      ]_vars

\* C6 amended: a verifyCode against a record with attempts at the maximum
\* never succeeds, whatever the code: it answers AttemptsExhausted while the
\* code has not expired and Expired from then on, and leaves the store
\* unchanged; only an issuance ends this, since every record an issuance
\* writes has attempts 0 and is unverified.
C6_ExhaustedNeverVerifies ==
    [][/\ \A e \in Emails : \A c \in Codes : \A row \in FindFirst(store, e) :
            (VerifyRow(row, c) /\ Exists(row) /\ row.attempts >= MaxAttempts) =>
               /\ vres'.kind = IF clock < row.expiresAt THEN "AttemptsExhausted" ELSE "Expired"
               /\ store' = store
       /\ \A p \in Procs :
            (pc[p] = "write" /\ Steps_(p)) =>
               \A r \in store' \ store : r.attempts = 0 /\ ~r.verified
      ]_vars

\* Issued, issued again after the cooldown, five wrong codes, and a further
\* verifyCode has just been answered AttemptsExhausted.
C6_Witness ==
    /\ vres.kind = "AttemptsExhausted"
    /\ \E r \in store :
         /\ r.attempts = MaxAttempts
         /\ r.lastSentAt >= CooldownMs
         /\ r.createdAt = 0

\* No request is in flight.
Quiet == \A p \in Procs : pc[p] \in {"idle", "done"}

\* C7: with no request in flight, after a verifyCode has succeeded, a
\* verifyCode for the same email with the same code answers AlreadyVerified.
C7_SecondVerifyAlreadyVerified ==
    [][\A e \in Emails : \A c \in Codes : \A row \in FindFirst(store, e) :
         (Quiet /\ VerifyRow(row, c) /\ vres'.kind = "ok") =>
            \A again \in FindFirst(store', e) :
                VerifyOutcome(again, c, clock').kind = "AlreadyVerified"
      ]_vars

\* C8: the attempts of every record are between 0 and the maximum.
C8_AttemptsWithinCap ==
    \A r \in store : 0 <= r.attempts /\ r.attempts <= MaxAttempts

\* A record is at the maximum and a further guess has just been refused, while
\* a request for the same email is in flight.
C8_Witness ==
    /\ vres.kind = "AttemptsExhausted"
    /\ \E r \in store : r.attempts = MaxAttempts
    /\ \E p \in Procs : pc[p] \notin {"idle", "done"}

\* C9: a RateLimited response reports between 1 and 60 remaining seconds.
C9_RemainingSecondsAtLeastOne ==
    \A p \in Procs :
        Returned(p, "RateLimited") => (1 <= resp[p].n /\ resp[p].n <= 60)

\* C10: the steps of a request on the RateLimited path change nothing in the
\* store, and the request has made no store mutation, sent no mail and
\* generated no code.
C10_RateLimitedHasNoEffect ==
    [][\A p \in Procs :
         (Steps_(p) /\ (pc'[p] = "remaining" \/ pc[p] = "remaining")) =>
            /\ store' = store
            /\ writes'[p] = 0
            /\ sends'[p] = 0
            /\ loc'[p].otp = ""
            /\ loc'[p].otpHash = <<>>
      ]_vars

\* A request has just been answered RateLimited and the record is as it was
\* issued.
C10_Witness ==
    \E p \in Procs :
        /\ Returned(p, "RateLimited")
        /\ \E r \in store : r.id = loc[p].existingOTP.id /\ r.lastSentAt = loc[p].existingOTP.lastSentAt

\* C11: a request that finds a record last sent 60 seconds ago or more is not
\* rate-limited, and whatever the state of that record, its write leaves the
\* email with one record that has attempts 0, verified false, lastSentAt the
\* issuance time, and the digest and expiry of the new code, so that no code
\* other than the new one verifies; a successful delivery changes nothing more.
C11_ReissueResetsRecord ==
    [][\A p \in Procs :
         /\ (/\ pc[p] = "cooldown"
             /\ Steps_(p)
             /\ Exists(loc[p].existingOTP)
             /\ clock - loc[p].existingOTP.lastSentAt >= CooldownMs) => pc'[p] = "generate"
         /\ (pc[p] = "write" /\ pc'[p] = "send") =>
              \E r \in store' :
                  /\ RowsOf(store', loc[p].normalizedEmail) = {r}
                  /\ Exists(loc[p].existingOTP) => r.id = loc[p].existingOTP.id
                  /\ r.attempts = 0
                  /\ ~r.verified
                  /\ r.lastSentAt = loc[p].now
                  /\ r.otpHash = hashOTP(loc[p].otp)
                  /\ r.expiresAt = loc[p].expiresAt
                  /\ \A c \in Codes :
                       c # loc[p].otp => VerifyOutcome(r, c, clock).kind # "ok"
         /\ (pc[p] = "send" /\ pc'[p] = "done" /\ resp'[p].kind = "ok") => store' = store
      ]_vars

\* A re-issuance five minutes after the previous one has been delivered: the
\* record that had expired is fresh again.
C11_Witness ==
    \E p \in Procs : \E r \in store :
        /\ Returned(p, "ok")
        /\ r.id = loc[p].existingOTP.id
        /\ loc[p].now - loc[p].existingOTP.lastSentAt >= ExpiryMs
        /\ r.lastSentAt = loc[p].now
        /\ r.attempts = 0
        /\ ~r.verified
        /\ clock < r.expiresAt

\* The record is one a code can be compared against: it exists, is not
\* verified, has not expired and has attempts left.
Comparable(row, t) ==
    /\ Exists(row)
    /\ ~row.verified
    /\ t < row.expiresAt
    /\ row.attempts < MaxAttempts

\* C12: against a comparable record, verifyCode with a code that does not
\* match adds exactly one to attempts, leaves everything else as it was and
\* answers Mismatch with max minus the new attempts; with the matching code it
\* sets verified, leaves everything else as it was and succeeds. verifyCode
\* succeeds only with the matching code against a comparable record.
C12_CompareStep ==
    [][\A e \in Emails : \A c \in Codes : \A row \in FindFirst(store, e) :
         VerifyRow(row, c) =>
            /\ (Comparable(row, clock) /\ row.otpHash # hashOTP(c)) =>
                 /\ vres' = [kind |-> "Mismatch", n |-> MaxAttempts - (row.attempts + 1)]
                 /\ store' = (store \ {row}) \cup {[row EXCEPT !.attempts = row.attempts + 1]}
            /\ (Comparable(row, clock) /\ row.otpHash = hashOTP(c)) =>
                 /\ vres' = [kind |-> "ok", n |-> 0]
                 /\ store' = (store \ {row}) \cup {[row EXCEPT !.verified = TRUE]}
            /\ vres'.kind = "ok" => (Comparable(row, clock) /\ row.otpHash = hashOTP(c))
      ]_vars

\* The third wrong code in a row has just been refused with two attempts left.
C12_Witness ==
    /\ vres = [kind |-> "Mismatch", n |-> 2]
    /\ \E r \in store : r.attempts = 3 /\ ~r.verified /\ clock < r.expiresAt

\* C13: verifyCode answers NotFound when there is no record; AlreadyVerified
\* for a verified record, also when it has expired or is at the attempt cap;
\* Expired for an unverified expired record, also when it is at the cap;
\* AttemptsExhausted for an unverified unexpired record at the cap; and
\* Mismatch only after a comparison against a comparable record.
C13_CheckOrder ==
    [][\A e \in Emails : \A c \in Codes : \A row \in FindFirst(store, e) :
         VerifyRow(row, c) =>
            /\ ~Exists(row) => vres'.kind = "NotFound"
            /\ (Exists(row) /\ row.verified) => vres'.kind = "AlreadyVerified"
            /\ (Exists(row) /\ ~row.verified /\ clock >= row.expiresAt) =>
                 vres'.kind = "Expired"
            /\ (Exists(row) /\ ~row.verified /\ clock < row.expiresAt
                  /\ row.attempts >= MaxAttempts) => vres'.kind = "AttemptsExhausted"
            /\ vres'.kind = "Mismatch" => Comparable(row, clock)
      ]_vars

\* A verified record that has since expired has just answered AlreadyVerified.
C13_Witness ==
    /\ vres.kind = "AlreadyVerified"
    /\ \E r \in store : r.verified /\ clock >= r.expiresAt

\* C14: a verifyCode that answers NotFound, AlreadyVerified, Expired or
\* AttemptsExhausted leaves the store as it was, and its answer is the same
\* for every code: none of them depends on a comparison.
C14_RefusalHasNoEffect ==
    [][\A e \in Emails : \A c \in Codes : \A row \in FindFirst(store, e) :
         (/\ VerifyRow(row, c)
          /\ vres'.kind \in {"NotFound", "AlreadyVerified", "Expired", "AttemptsExhausted"})
         => /\ store' = store
            /\ \A other \in Codes : VerifyOutcome(row, other, clock) = vres'
      ]_vars

\* A code has just been refused as Expired and the two attempts counted before
\* the expiry are still two.
C14_Witness ==
    /\ vres.kind = "Expired"
    /\ \E r \in store : r.attempts = 2 /\ ~r.verified /\ clock >= r.expiresAt

\* C15: a step after which a row of the store is gone is the rollback of a
\* request whose delivery failed; no verifyCode and no other step of a request
\* removes a row.
C15_OnlyRollbackDeletes ==
    [][(\E r \in store : \A q \in store' : q.id # r.id) =>
          \E p \in Procs :
              /\ pc[p] = "rollback"
              /\ pc'[p] = "done"
              /\ resp'[p].kind = "DeliveryError"
              /\ \A r \in store : r.email # loc[p].normalizedEmail => r \in store'
      ]_vars

\* A verified record is still there after a later request for its email was
\* answered RateLimited.
C15_Witness ==
    \E p \in Procs : \E r \in store :
        /\ Returned(p, "RateLimited")
        /\ r.id = loc[p].existingOTP.id
        /\ r.verified

\* The bodies with no usable email: none, a number, the empty string, and an
\* address without a dot after the @.
Malformed == {Missing, NonString, Str(<<>>), Str(<<"a", "@", "b">>)}

\* C16: a request whose email is missing, not a string or malformed returns
\* 400 ValidationError at once: the store is as it was, and the call has come
\* nowhere near the read, the generator, the write or the mail. A well-formed
\* email in any spelling goes on to the read under its normalized form.
C16_ValidationErrorHasNoEffect ==
    [][\A p \in Procs :
         (pc[p] \in {"idle", "done"} /\ pc'[p] \in {"find", "done"}) =>
         \A raw \in Inputs :
         ValidateEmail(p, raw) =>
            /\ raw \in Malformed =>
                 /\ pc'[p] = "done"
                 /\ resp'[p] = Response(400, "ValidationError", 0)
                 /\ store' = store
                 /\ writes'[p] = 0
                 /\ sends'[p] = 0
                 /\ loc'[p] = NoLocals
            /\ raw \notin Malformed =>
                 /\ pc'[p] = "find"
                 /\ loc'[p].normalizedEmail = <<"a", "@", "b", ".", "c">>
      ]_vars

\* A malformed request has just been refused while a record is in the store
\* and another request is at its write.
C16_Witness ==
    \E p \in Procs : \E q \in Procs :
        /\ Returned(p, "ValidationError")
        /\ pc[q] = "write"
        /\ store # {}

\* One address in two spellings.
LowerSpelling == Str(<<"a", "@", "b", ".", "c">>)
PaddedUpperSpelling == Str(<<" ", "A", "@", "b", ".", "c">>)

\* C17: with one request at a time, every step by which a request passes
\* validation is the step of either spelling of the address, and every
\* verifyCode step under one spelling is the step under the other; every row
\* is stored under the trimmed lower-case address, and there is one row for it
\* at most.
C17_KeyIsNormalizedEmail ==
    [][/\ \A p \in Procs :
            (pc[p] \in {"idle", "done"} /\ pc'[p] = "find") =>
               (ValidateEmail(p, LowerSpelling) /\ ValidateEmail(p, PaddedUpperSpelling))
       /\ vres'.kind # "none" =>
            \A c \in Codes :
                VerifyCode(Normalize(LowerSpelling.chars), c)
                   <=> VerifyCode(Normalize(PaddedUpperSpelling.chars), c)
       /\ \A r \in store' : r.email = LowerSpelling.chars
       /\ Cardinality(store') <= 1
      ]_vars

\* A request whose address normalizes to what " A@b.c" normalizes to has been
\* rate-limited by the record stored under "a@b.c", on which a wrong code has
\* been counted.
C17_Witness ==
    \E p \in Procs : \E r \in store :
        /\ Returned(p, "RateLimited")
        /\ loc[p].normalizedEmail = Normalize(PaddedUpperSpelling.chars)
        /\ r.email = LowerSpelling.chars
        /\ r.id = loc[p].existingOTP.id
        /\ r.attempts = 1

\* The responses of the handler other than the 429, all of them constants.
FixedResponses ==
    { NoResp,
      Response(200, "ok", 0),
      Response(400, "ValidationError", 0),
      Response(500, "DeliveryError", 0),
      Response(503, "PersistenceError", 0),
      Response(500, "PersistenceError", 0),
      Response(500, "InternalError", 0) }

C19_ExpiryAfterLastSent ==
    \A r \in store : r.expiresAt > r.lastSentAt

\* The positions of a request that has been received and has not returned.
InFlight == {"find", "cooldown", "remaining", "generate", "expiry", "stamp", "write",
             "send", "rollback"}

\* C20: a request that has been received eventually returns; a call has a
\* response exactly when it has returned; a call that returns after a failed
\* store write returns PersistenceError, and one that returns after a failed
\* delivery and its rollback returns DeliveryError.
C20_EveryCallReturns ==
    /\ \A p \in Procs : (pc[p] \in InFlight) ~> (pc[p] = "done" /\ resp[p] # NoResp)
    /\ [](\A p \in Procs : (pc[p] = "done") <=> (resp[p] # NoResp))
    /\ [](\A p \in Procs :
            /\ (pc[p] = "done" /\ writes[p] = 0 /\ sends[p] = 0 /\ loc[p].now # -1)
                 => resp[p].kind = "PersistenceError"
            /\ (pc[p] = "done" /\ sends[p] = 1 /\ writes[p] = 2)
                 => resp[p].kind = "DeliveryError")

\* The store was unreachable at the write: the call has returned
\* PersistenceError with status 503, nothing written and nothing sent.
C20_Witness ==
    \E p \in Procs :
        /\ Returned(p, "PersistenceError")
        /\ resp[p].status = 503
        /\ loc[p].now # -1
        /\ writes[p] = 0
        /\ sends[p] = 0

\* C21: a request that stops at the hashing returns status 500 from the outer
\* catch with the store as it was, nothing written and nothing sent; a request
\* that gets past the hashing carries the digest of its code, and so does
\* every request at its write.
C21_HashFailureIsFatal ==
    [][\A p \in Procs :
         /\ (pc[p] = "generate" /\ pc'[p] = "done") =>
              /\ resp'[p] = Response(500, "InternalError", 0)
              /\ store' = store
              /\ writes'[p] = 0
              /\ sends'[p] = 0
         /\ (pc[p] = "generate" /\ pc'[p] = "expiry") =>
              (loc'[p].otp \in Codes /\ loc'[p].otpHash = hashOTP(loc'[p].otp))
         /\ pc'[p] \in {"write", "send"} => loc'[p].otpHash = hashOTP(loc'[p].otp)
      ]_vars

\* A re-issuance has stopped at the hashing: status 500, and the prior record
\* is as the request read it.
C21_Witness ==
    \E p \in Procs : \E r \in store :
        /\ Returned(p, "InternalError")
        /\ r.id = loc[p].existingOTP.id
        /\ r.lastSentAt = loc[p].existingOTP.lastSentAt
        /\ clock - r.lastSentAt >= CooldownMs
        /\ writes[p] = 0
        /\ sends[p] = 0

\* The positions a request can reach in one step from each position.
After(label) ==
    CASE label = "find" -> {"cooldown", "done"}
      [] label = "cooldown" -> {"remaining", "generate"}
      [] label = "remaining" -> {"done"}
      [] label = "generate" -> {"expiry", "done"}
      [] label = "expiry" -> {"stamp"}
      [] label = "stamp" -> {"write"}
      [] label = "write" -> {"send", "done"}
      [] label = "send" -> {"rollback", "done"}
      [] label = "rollback" -> {"done"}
      [] OTHER -> {"idle", "find", "done"}

\* C22: the steps of a call follow the order read, throttle check, generate
\* and hash, persist, dispatch; the mail is sent by the step at the dispatch
\* and by no other, once per call at most, and the call at the dispatch has
\* made its one write; a call that has returned without a write has sent
\* nothing.
C22_StepsInOrder ==
    [][\A p \in Procs :
         /\ Steps_(p) => pc'[p] \in After(pc[p])
         /\ sends'[p] > sends[p] => (pc[p] = "send" /\ sends[p] = 0 /\ writes[p] = 1)
         /\ writes'[p] > writes[p] => pc[p] \in {"write", "rollback"}
         /\ pc'[p] = "send" =>
              (pc[p] \in {"write", "send"} /\ writes'[p] = 1 /\ sends'[p] = 0)
         /\ sends'[p] <= 1
         /\ (pc'[p] = "done" /\ writes'[p] = 0) => sends'[p] = 0
         /\ pc'[p] \in {"find", "cooldown", "remaining", "generate"} => loc'[p].otp = ""
      ]_vars

\* One call has returned success after one write and one mail while another
\* is rolling back after its write and its mail.
C22_Witness ==
    \E p \in Procs : \E q \in Procs :
        /\ Returned(p, "ok")
        /\ writes[p] = 1
        /\ sends[p] = 1
        /\ pc[q] = "rollback"
        /\ writes[q] = 1
        /\ sends[q] = 1

\* C23: whenever a call has returned success, the store holds a record for
\* its email whose digest is that of the code the call delivered.
C23_DeliveredCodeHasRecord ==
    \A p \in Procs :
        Returned(p, "ok") =>
            \E r \in store :
                /\ r.email = loc[p].normalizedEmail
                /\ r.otpHash = hashOTP(loc[p].otp)

\* C24: with one request at a time, when a call returns DeliveryError a read
\* for its email finds nothing; a record appears only by the write of a
\* request; a request that reads while there is no record for its email reads
\* none, and a request that has read none is not rate-limited.
C24_FailedDeliveryDoesNotThrottle ==
    [][\A p \in Procs :
         /\ (pc'[p] = "done" /\ resp'[p].kind = "DeliveryError") =>
              FindFirst(store', loc'[p].normalizedEmail) = {NullRow}
         /\ (\E r \in store' : \A q \in store : q.id # r.id) =>
              \E w \in Procs : pc[w] = "write" /\ pc'[w] = "send"
         /\ (/\ pc[p] = "find"
             /\ pc'[p] = "cooldown"
             /\ RowsOf(store, loc[p].normalizedEmail) = {}) => ~Exists(loc'[p].existingOTP)
         /\ (pc[p] = "cooldown" /\ Steps_(p) /\ ~Exists(loc[p].existingOTP)) =>
              pc'[p] = "generate"
         /\ (pc'[p] = "done" /\ resp'[p].kind = "RateLimited") => Exists(loc'[p].existingOTP)
      ]_vars

\* A re-issuance has just failed to deliver, within the 60 seconds that would
\* count had its time stamp stayed: no record is left to throttle on.
C24_Witness ==
    \E p \in Procs :
        /\ Returned(p, "DeliveryError")
        /\ Exists(loc[p].existingOTP)
        /\ clock - loc[p].now < CooldownMs
        /\ RowsOf(store, loc[p].normalizedEmail) = {}
        /\ FindFirst(store, loc[p].normalizedEmail) = {NullRow}

\* Every module instance that has been evaluated exports the client of the
\* global handle, and so does every request at work.
OneInstance ==
    /\ \A m \in Modules : prismaOf[m] \in {0, globalForPrisma}
    /\ \A p \in Procs : handle[p] \in {0, globalForPrisma}

\* C25: within one process at most one client and at most one pool are ever
\* constructed, every module instance and every request works with the client
\* of the global handle, and once the handle is set no step changes it or the
\* set of clients, whatever the order of imports and requests.
C25_ClientIsSingleton ==
    [][ /\ Cardinality(clients') <= 1
        /\ pools' <= 1
        /\ OneInstance'
        /\ globalForPrisma' # 0 <=> clients' # {}
        /\ globalForPrisma # 0 =>
               (globalForPrisma' = globalForPrisma /\ clients' = clients) ]_vars

\* C25 happens: every module instance has been evaluated, both requests are at
\* work, and one client on one pool serves them all.
C25_Witness ==
    /\ \A m \in Modules : prismaOf[m] # 0
    /\ \A p \in Procs : handle[p] # 0
    /\ Cardinality(clients) = 1
    /\ pools = 1
    /\ OneInstance

\* How many entries of results report success.
Successes(results) == Cardinality({k \in 1..Len(results) : results[k].success})

\* The setup request has answered.
SetupDone == run.pc = "done" /\ run.response.status # 0

\* C26: the loop executes the blocks in order and goes on after a failure; an
\* error classified as already-exists is recorded as a success and counted,
\* any other error is recorded with success false and not counted, so that
\* tablesCreated <= totalStatements = the number of blocks; on a database that
\* already holds every object and answers, every block succeeds and the counts
\* are those of a first run without failures; with DATABASE_URL set the
\* response reports success: true, whatever the blocks did.
C26_EveryBlockIsExecuted ==
    [][ /\ Len(run'.results) <= Len(sqlBlocks)
        /\ \A k \in 1..Len(run'.results) :
            /\ run'.results[k].statement = k
            /\ run'.results[k].note = "already exists" => run'.results[k].success
            /\ run'.results[k].success <=> run'.results[k].error = NoError
            /\ ~isAlreadyExists(run'.results[k].error)
        /\ run'.successCount = Successes(run'.results)
        /\ (run.pc = "loop" /\ run' # run) =>
               /\ run'.results = Append(run.results, run'.results[Len(run'.results)])
               /\ run'.pc = IF Len(run'.results) = Len(sqlBlocks)
                            THEN "verify" ELSE "loop"
        /\ (SetupDone' /\ databaseUrl # "unset") =>
               /\ run'.response.status = 200
               /\ run'.response.success = "true"
               /\ run'.response.totalStatements = Len(sqlBlocks)
               /\ run'.response.tablesCreated = Successes(run'.results)
               /\ run'.response.tablesCreated <= run'.response.totalStatements
               /\ Len(run'.results) = Len(sqlBlocks)
        /\ (SetupDone' /\ databaseUrl = "unset") =>
               /\ run'.response.status = 500
               /\ run'.response.success = "absent"
               /\ schema' = run'.before
        /\ ( /\ SetupDone'
             /\ databaseUrl # "unset"
             /\ run'.before = AllObjects
             /\ \A k \in 1..Len(run'.results) :
                    run'.results[k].error # Unreachable ) =>
               /\ run'.response.tablesCreated = Len(sqlBlocks)
               /\ \A k \in 1..Len(run'.results) : run'.results[k].success
               /\ schema' = AllObjects ]_vars

\* C26 happens: a run has answered success: true after a block failed, a
\* later block was executed all the same, and an already-exists error was
\* counted as a success.
C26_Witness ==
    /\ SetupDone
    /\ run.response.success = "true"
    /\ \E j, k, n \in 1..Len(run.results) :
        /\ j < k
        /\ ~run.results[j].success
        /\ run.results[k].success
        /\ run.results[n].note = "already exists"
    /\ run.response.tablesCreated < run.response.totalStatements

\* C26 happens a second time: on a database that held every object, a run has
\* answered with every block counted and none failed.
C26_SecondRun ==
    /\ SetupDone
    /\ run.before = AllObjects
    /\ run.response.tablesCreated = Len(sqlBlocks)
    /\ run.response.totalStatements = Len(sqlBlocks)

=============================================================================
